---- MODULE Spec2Model ----
(***************************************************************************)
(* Model of mutlisig.py: the coroutine main() that sets up a 2-of-3        *)
(* MultiEd25519 account on Aptos and authorizes one coin transfer with it. *)
(*                                                                         *)
(* main() is one sequential coroutine.  Its position is pc, named after    *)
(* the source line of the next statement to run.  It stops at three kinds  *)
(* of points: wait() (blocks on input() when should_wait is set), an       *)
(* awaited call of the REST / faucet client, and an awaited                *)
(* asyncio.gather of four calls that complete in any order.  Everything    *)
(* the aptos_sdk and the ledger return is an input of the model: it is     *)
(* drawn from a small set, or the call raises and main() ends.  Keys,      *)
(* signatures, addresses and transactions are symbolic terms that record   *)
(* the arguments the source passes to the SDK constructors.                *)
(***************************************************************************)
EXTENDS Integers, Sequences, FiniteSets, TLC

\* ---------------------------------------------------------------- bounds
MaxKey == 2
MaxChainId == 1
MaxTime == 1
MaxBalance == 0
MaxTxHash == 0

\* ------------------------------------------------------ program constants
threshold == 2
alice_start == 10000000
bob_start == 20000000
chad_start == 30000000
multisig_start == 40000000
transfer_amount == 100
sequence_number == 0
max_gas_amount == 2000
gas_unit_price == 100
expiration_delta == 600

\* a variable of main() that has not been assigned yet: None for objects,
\* Unset for integers, the empty list for sig_map
None == [none |-> TRUE]
Unset == 0 - 1

Holders == {"alice", "bob", "chad"}
\* the four accounts that are funded and whose balance is read
Targets == Holders \cup {"multisig"}
\* the calls main() makes on the faucet and REST clients
Ops == {"fund_account", "account_balance", "chain_id",
        "submit_bcs_transaction", "wait_for_transaction"}

PrivateKeys == 1..MaxKey
ChainIds == 1..MaxChainId
Times == 0..MaxTime
Balances == 0..MaxBalance
TxHashes == 0..MaxTxHash

VARIABLES
  pc,                   \* source line of the next statement of main()
  should_wait,          \* module-level flag read by wait()
  alice, bob, chad,     \* the three generated accounts (their private keys)
  multisig_public_key,
  multisig_address,
  pending,              \* calls of the running asyncio.gather not yet returned
  results,              \* results of the running gather, by account
  alice_balance, bob_balance, chad_balance, multisig_balance,
  chain_id,
  raw_transaction,
  alice_signature, bob_signature,
  sig_map,
  multisig_signature,
  signed_transaction,
  tx_hash,
  mempool,              \* transactions handed to the ledger, in order
  funded,               \* amount the faucet has credited to each account
  issued,               \* number of calls of each client operation started
  returned              \* number of calls of each client operation returned

vars == <<pc, should_wait, alice, bob, chad, multisig_public_key,
          multisig_address, pending, results, alice_balance, bob_balance,
          chad_balance, multisig_balance, chain_id, raw_transaction,
          alice_signature, bob_signature, sig_map, multisig_signature,
          signed_transaction, tx_hash, mempool, funded, issued,
          returned>>

keyVars == <<alice, bob, chad, multisig_public_key, multisig_address>>
balanceVars == <<alice_balance, bob_balance, chad_balance, multisig_balance>>
txnVars == <<chain_id, raw_transaction>>
sigVars == <<alice_signature, bob_signature, sig_map, multisig_signature,
             signed_transaction>>
ledgerVars == <<tx_hash, mempool, funded>>
gatherVars == <<pending, results>>
callVars == <<issued, returned>>

\* ------------------------------------------------- symbolic SDK terms
\* Account.generate(): an account holding a fresh private key
Account(sk) == [private_key |-> sk]

\* account.public_key(): the verification key of the account's private key
public_key(account) == [pub |-> account.private_key]

\* account.address(): the single-signer address of an account
address(account) == [scheme |-> "ed25519", key |-> public_key(account)]

\* MultiPublicKey(keys, threshold): the ordered key list and the threshold
MultiPublicKey(keys, k) == [keys |-> keys, threshold |-> k]

\* AccountAddress.from_key(multisig_public_key)
from_key(mpk) == [scheme |-> "multi_ed25519", key |-> mpk]

\* RawTransaction(...) as constructed at lines 127-135
RawTransaction(sender, to, now, cid) ==
  [sender |-> sender,
   sequence_number |-> sequence_number,
   payload |-> [module |-> "0x1::coin", function |-> "transfer",
                ty_args |-> "0x1::aptos_coin::AptosCoin",
                to |-> to, amount |-> transfer_amount],
   max_gas_amount |-> max_gas_amount,
   gas_unit_price |-> gas_unit_price,
   expiration_timestamps_secs |-> now + expiration_delta,
   chain_id |-> cid]

\* raw_transaction.keyed(): the signing message of a raw transaction
keyed(rt) == [prefix |-> "APTOS::RawTransaction", body |-> rt]

\* account.sign(message): a signature over message that verifies under the
\* account's public key
sign(account, message) == [signer |-> public_key(account), message |-> message]

\* MultiSignature(sig_map): the (index, signature) pairs as given
MultiSignature(pairs) == [signatures |-> pairs]

\* Authenticator(MultiEd25519Authenticator(public_key, signature))
MultiEd25519Authenticator(mpk, msig) ==
  [variant |-> "multi_ed25519", public_key |-> mpk, signature |-> msig]

SignedTransaction(rt, auth) == [transaction |-> rt, authenticator |-> auth]

\* ------------------------------------------------------------ control
\* the five wait() calls of main(), and where main() resumes after each
WaitPoints == {"L55", "L67", "L83", "L112", "L144"}

AfterWait(l) ==
  CASE l = "L55" -> "L57"
    [] l = "L67" -> "L70"
    [] l = "L83" -> "L85"
    [] l = "L112" -> "L115"
    [] l = "L144" -> "L147"

\* the awaits of main(): two gathers of balances, one of fundings, and
\* the three single calls
AwaitPoints == {"L96", "L103", "L126", "L159", "L160", "L164"}

Count(f, op) == [f EXCEPT ![op] = @ + 1]
CountN(f, op, n) == [f EXCEPT ![op] = @ + n]

NoResults == [t \in Targets |-> Unset]

Init ==
  /\ pc = "L37"
  /\ should_wait = TRUE
  /\ alice = None /\ bob = None /\ chad = None
  /\ multisig_public_key = None
  /\ multisig_address = None
  /\ pending = {}
  /\ results = NoResults
  /\ alice_balance = Unset /\ bob_balance = Unset
  /\ chad_balance = Unset /\ multisig_balance = Unset
  /\ chain_id = Unset
  /\ raw_transaction = None
  /\ alice_signature = None /\ bob_signature = None
  /\ sig_map = <<>>
  /\ multisig_signature = None
  /\ signed_transaction = None
  /\ tx_hash = None
  /\ mempool = <<>>
  /\ funded = [t \in Targets |-> 0]
  /\ issued = [o \in Ops |-> 0]
  /\ returned = [o \in Ops |-> 0]

\* the amount main() asks the faucet to credit to each account
fund_amount(t) ==
  CASE t = "alice" -> alice_start
    [] t = "bob" -> bob_start
    [] t = "chad" -> chad_start
    [] t = "multisig" -> multisig_start

\* ------------------------------------------------------------ actions
\* main(should_wait_input) up to the first wait(): set the flag, generate
\* the three accounts
main(should_wait_input, a, b, c) ==
  /\ pc = "L37"
  /\ should_wait' = should_wait_input
  /\ alice' = Account(a)
  /\ bob' = Account(b)
  /\ chad' = Account(c)
  /\ pc' = "L55"
  /\ UNCHANGED <<multisig_public_key, multisig_address, gatherVars,
                 balanceVars, txnVars, sigVars, ledgerVars, callVars>>

\* wait(): returns at once when should_wait is off, otherwise when the
\* user presses Enter
wait ==
  /\ pc \in WaitPoints
  /\ pc' = AfterWait(pc)
  /\ UNCHANGED <<should_wait, keyVars, gatherVars, balanceVars, txnVars,
                 sigVars, ledgerVars, callVars>>

\* print the authentication keys and the public keys
PrintKeys ==
  /\ pc = "L57"
  /\ pc' = "L67"
  /\ UNCHANGED <<should_wait, keyVars, gatherVars, balanceVars, txnVars,
                 sigVars, ledgerVars, callVars>>

\* configure the 2-of-3 account: the key list in the order alice, bob,
\* chad, the threshold, and the address derived from them
ConfigureMultisig ==
  /\ pc = "L70"
  /\ multisig_public_key' =
       MultiPublicKey(<<public_key(alice), public_key(bob), public_key(chad)>>,
                      threshold)
  /\ multisig_address' = from_key(multisig_public_key')
  /\ pc' = "L83"
  /\ UNCHANGED <<should_wait, alice, bob, chad, gatherVars, balanceVars,
                 txnVars, sigVars, ledgerVars, callVars>>

\* create the four fund_account calls and await their gather
FundAccounts ==
  /\ pc = "L85"
  /\ pending' = Targets
  /\ results' = NoResults
  /\ issued' = CountN(issued, "fund_account", 4)
  /\ pc' = "L96"
  /\ UNCHANGED <<should_wait, keyVars, balanceVars, txnVars, sigVars,
                 ledgerVars, returned>>

\* one fund_account call returns; the gather returns with the last one
fund_account(t) ==
  /\ pc = "L96"
  /\ t \in pending
  /\ pending' = pending \ {t}
  /\ funded' = [funded EXCEPT ![t] = @ + fund_amount(t)]
  /\ returned' = Count(returned, "fund_account")
  /\ pc' = IF pending' = {} THEN "L99" ELSE "L96"
  /\ UNCHANGED <<should_wait, keyVars, results, balanceVars, txnVars,
                 sigVars, tx_hash, mempool, issued>>

\* create the four account_balance calls and await their gather
CheckBalances ==
  /\ pc = "L99"
  /\ pending' = Targets
  /\ results' = NoResults
  /\ issued' = CountN(issued, "account_balance", 4)
  /\ pc' = "L103"
  /\ UNCHANGED <<should_wait, keyVars, balanceVars, txnVars, sigVars,
                 ledgerVars, returned>>

\* one account_balance call returns b; with the last one the gather
\* returns and the four results are assigned to the balance variables
account_balance(t, b) ==
  /\ pc \in {"L103", "L164"}
  /\ t \in pending
  /\ pending' = pending \ {t}
  /\ results' = [results EXCEPT ![t] = b]
  /\ returned' = Count(returned, "account_balance")
  /\ IF pending' = {}
       THEN /\ alice_balance' = results'["alice"]
            /\ bob_balance' = results'["bob"]
            /\ chad_balance' = results'["chad"]
            /\ multisig_balance' = results'["multisig"]
            /\ pc' = IF pc = "L103" THEN "L112" ELSE "done"
       ELSE /\ UNCHANGED balanceVars
            /\ pc' = pc
  /\ UNCHANGED <<should_wait, keyVars, txnVars, sigVars, ledgerVars, issued>>

\* build the entry function and ask the node for its chain id
RequestChainId ==
  /\ pc = "L115"
  /\ issued' = Count(issued, "chain_id")
  /\ pc' = "L126"
  /\ UNCHANGED <<should_wait, keyVars, gatherVars, balanceVars, txnVars,
                 sigVars, ledgerVars, returned>>

\* chain_id() returns cid; build the raw transaction at time now
BuildRawTransaction(cid, now) ==
  /\ pc = "L126"
  /\ chain_id' = cid
  /\ raw_transaction' = RawTransaction(multisig_address, address(chad), now, cid)
  /\ returned' = Count(returned, "chain_id")
  /\ pc' = "L137"
  /\ UNCHANGED <<should_wait, keyVars, gatherVars, balanceVars, sigVars,
                 ledgerVars, issued>>

SignAlice ==
  /\ pc = "L137"
  /\ alice_signature' = sign(alice, keyed(raw_transaction))
  /\ pc' = "L138"
  /\ UNCHANGED <<should_wait, keyVars, gatherVars, balanceVars, txnVars,
                 bob_signature, sig_map, multisig_signature,
                 signed_transaction, ledgerVars, callVars>>

\* Bob signs a raw transaction rebuilt with a later expiration time instead
\* of the one Alice signed
SignBobRebuilt ==
  /\ pc = "L138"
  /\ bob_signature' =
       sign(bob, keyed([raw_transaction EXCEPT
                          !.expiration_timestamps_secs = @ + 1]))
  /\ pc' = "L144"
  /\ UNCHANGED <<should_wait, keyVars, gatherVars, balanceVars, txnVars,
                 alice_signature, sig_map, multisig_signature,
                 signed_transaction, ledgerVars, callVars>>

SignBob ==
  /\ pc = "L138"
  /\ bob_signature' = sign(bob, keyed(raw_transaction))
  /\ pc' = "L144"
  /\ UNCHANGED <<should_wait, keyVars, gatherVars, balanceVars, txnVars,
                 alice_signature, sig_map, multisig_signature,
                 signed_transaction, ledgerVars, callVars>>

\* combine the signatures: index 0 with Alice's, index 1 with Bob's
CombineSignatures ==
  /\ pc = "L147"
  /\ sig_map' = <<(<<0, alice_signature>>), (<<1, bob_signature>>)>>
  /\ multisig_signature' = MultiSignature(sig_map')
  /\ pc' = "L151"
  /\ UNCHANGED <<should_wait, keyVars, gatherVars, balanceVars, txnVars,
                 alice_signature, bob_signature, signed_transaction,
                 ledgerVars, callVars>>

\* wrap key and signature in the authenticator and build the signed
\* transaction
CreateSignedTransaction ==
  /\ pc = "L151"
  /\ signed_transaction' =
       SignedTransaction(raw_transaction,
         MultiEd25519Authenticator(multisig_public_key, multisig_signature))
  /\ pc' = "L158"
  /\ UNCHANGED <<should_wait, keyVars, gatherVars, balanceVars, txnVars,
                 alice_signature, bob_signature, sig_map, multisig_signature,
                 ledgerVars, callVars>>

\* hand the signed transaction to the ledger
submit_bcs_transaction ==
  /\ pc = "L158"
  /\ mempool' = Append(mempool, signed_transaction)
  /\ issued' = Count(issued, "submit_bcs_transaction")
  /\ pc' = "L159"
  /\ UNCHANGED <<should_wait, keyVars, gatherVars, balanceVars, txnVars,
                 sigVars, tx_hash, funded, returned>>

\* the submission returns the transaction hash h; wait for that transaction
SubmitReturns(h) ==
  /\ pc = "L159"
  /\ tx_hash' = [hash |-> h]
  /\ returned' = Count(returned, "submit_bcs_transaction")
  /\ issued' = Count(issued, "wait_for_transaction")
  /\ pc' = "L160"
  /\ UNCHANGED <<should_wait, keyVars, gatherVars, balanceVars, txnVars,
                 sigVars, mempool, funded>>

\* wait_for_transaction returns; query the four balances again
wait_for_transaction ==
  /\ pc = "L160"
  /\ returned' = Count(returned, "wait_for_transaction")
  /\ pending' = Targets
  /\ results' = NoResults
  /\ issued' = CountN(issued, "account_balance", 4)
  /\ pc' = "L164"
  /\ UNCHANGED <<should_wait, keyVars, balanceVars, txnVars, sigVars,
                 ledgerVars>>

\* an awaited call raises, or input() does: the exception leaves main()
Raise ==
  /\ \/ pc \in AwaitPoints
     \/ pc \in WaitPoints /\ should_wait
  /\ pc' = "failed"
  /\ pending' = {}
  /\ UNCHANGED <<should_wait, keyVars, results, balanceVars, txnVars,
                 sigVars, ledgerVars, callVars>>

Next ==
  \/ \E w \in BOOLEAN, a, b, c \in PrivateKeys : main(w, a, b, c)
  \/ wait
  \/ PrintKeys
  \/ ConfigureMultisig
  \/ FundAccounts
  \/ \E t \in Targets : fund_account(t)
  \/ CheckBalances
  \/ \E t \in Targets, b \in Balances : account_balance(t, b)
  \/ RequestChainId
  \/ \E cid \in ChainIds, now \in Times : BuildRawTransaction(cid, now)
  \/ SignAlice
  \/ SignBob
  \/ CombineSignatures
  \/ CreateSignedTransaction
  \/ submit_bcs_transaction
  \/ \E h \in TxHashes : SubmitReturns(h)
  \/ wait_for_transaction
  \/ Raise

Spec == Init /\ [][Next]_vars

\* ------------------------------------------------------------ claims
\* the partial signatures that exist over the current raw transaction
IsPartialOver(sig, rt) == sig # None /\ sig.message = keyed(rt)

NumPartials ==
  (IF IsPartialOver(alice_signature, raw_transaction) THEN 1 ELSE 0)
  + (IF IsPartialOver(bob_signature, raw_transaction) THEN 1 ELSE 0)

\* the composite signature exists only once at least k partial signatures
\* over the raw transaction exist, and it is made of such signatures
CombineAfterPartials ==
  multisig_signature # None =>
    /\ multisig_public_key # None
    /\ NumPartials >= multisig_public_key.threshold
    /\ \A i \in 1..Len(sig_map) : IsPartialOver(sig_map[i][2], raw_transaction)

\* whatever was handed to the ledger carries the composite signature built
\* before, over the raw transaction that was signed
SubmitAfterCombine ==
  /\ issued["submit_bcs_transaction"] > 0 => multisig_signature # None
  /\ \A i \in 1..Len(mempool) :
       /\ mempool[i].transaction = raw_transaction
       /\ mempool[i].authenticator.signature = multisig_signature

SubmitAtMostOnce ==
  /\ issued["submit_bcs_transaction"] <= 1
  /\ Len(mempool) <= 1

\* balance queries beyond the first round of four are the final ones
FinalQueryAfterWait ==
  issued["account_balance"] > Cardinality(Targets) =>
    /\ returned["submit_bcs_transaction"] = 1
    /\ returned["wait_for_transaction"] = 1

\* C10: in every run of main() the steps of the authorization happen in
\* causal order: the composite signature is built only after at least k
\* (here 2) partial signatures over the same raw transaction exist, the
\* signed transaction is submitted only after the composite signature has
\* been built, it is submitted at most once, and the final balances are
\* queried only after the wait for the submitted transaction has returned.
C10_CausalOrder ==
  /\ CombineAfterPartials
  /\ SubmitAfterCombine
  /\ SubmitAtMostOnce
  /\ FinalQueryAfterWait

\* a run that went through the whole authorization and read the final
\* balances
C10_Witness ==
  /\ pc = "done"
  /\ multisig_signature # None
  /\ NumPartials = 2
  /\ Len(mempool) = 1
  /\ returned["wait_for_transaction"] = 1
  /\ returned["account_balance"] = 2 * Cardinality(Targets)

====
